---- MODULE Spec2Model ----
(***************************************************************************)
(* Model of the Alembic migration                                          *)
(*   opentakserver/migrations/versions/                                    *)
(*     20260205_split_duplicate_euds_and_add_unique_constraints.py         *)
(* upgrade() splits duplicate certificates.eud_uid / data_packages.        *)
(* creator_uid references by cloning the EUD row under the uid             *)
(* <uid>::dup::<record id>, then adds the two unique constraints;          *)
(* downgrade() drops the constraints, truncates the foreign keys at        *)
(* '::dup::' and deletes the clones.  One action per SQL statement.        *)
(*                                                                         *)
(* A uid is a sequence of one-character strings, so that concatenation,    *)
(* POSITION, SUBSTRING and LIKE are computed, not assumed.                 *)
(***************************************************************************)
EXTENDS Integers, Sequences, FiniteSets, TLC

\* ------------------------------------------------------------------ bounds
\* certificates have ids 1..MaxCertId, data_packages ids 1..MaxPkgId
MaxCertId == 3
MaxPkgId == 2
\* number of upgrade()/downgrade() invocations in one behaviour
MaxCalls == 2
\* record ids 0..MaxRecId for the check of the uid derivation alone
MaxRecId == 12

CertIds == 1..MaxCertId
PkgIds == 1..MaxPkgId

\* ----------------------------------------------------------------- strings
\* the separator the migration writes into a cloned uid
Sep == <<":", ":", "d", "u", "p", ":", ":">>

Digit(d) == CASE d = 0 -> "0" [] d = 1 -> "1" [] d = 2 -> "2" [] d = 3 -> "3"
              [] d = 4 -> "4" [] d = 5 -> "5" [] d = 6 -> "6" [] d = 7 -> "7"
              [] d = 8 -> "8" [] d = 9 -> "9"

\* decimal text of a record id, as the f-string / the SQL || operator formats it
RECURSIVE Str(_)
Str(n) == IF n < 10 THEN <<Digit(n)>> ELSE Str(n \div 10) \o <<Digit(n % 10)>>

\* new_uid = f"{eud_uid}::dup::{cert_id}"
DeriveNoSeparator(uid, id) == uid \o Str(id)
DeriveNoRecordId(uid, id) == uid \o Sep
Derive(uid, id) == uid \o Sep \o Str(id)

\* POSITION('::dup::' IN s): index of the first occurrence, 0 when there is none
Position(s) ==
  LET hits == {i \in 1..Len(s) : i + Len(Sep) - 1 <= Len(s)
                                 /\ SubSeq(s, i, i + Len(Sep) - 1) = Sep}
  IN IF hits = {} THEN 0 ELSE CHOOSE i \in hits : \A j \in hits : i <= j

\* s LIKE '%::dup::%'
IsDup(s) == Position(s) > 0

\* SUBSTRING(s FROM 1 FOR POSITION('::dup::' IN s) - 1)
TruncateKeepAll(s) == s
Truncate(s) == SubSeq(s, 1, Position(s) - 1)

\* ------------------------------------------------------------------- store
\* SQL NULL in a foreign-key column
NULL == <<"NULL">>
\* fetchone() found no row
NoRow == "no row"
\* no group fetched yet (the loop variable `row` before the first iteration)
NoGroup == [uid |-> NULL, ids |-> <<>>]

\* uids of the euds table
EudUids(e) == {e[i].uid : i \in DOMAIN e}

\* SELECT ... FROM euds WHERE uid = :uid  (.fetchone()): the non-identifier
\* columns of the first matching row, or NoRow
SelectEud(e, uid) ==
  LET hits == {i \in DOMAIN e : e[i].uid = uid}
  IN IF hits = {} THEN NoRow
     ELSE e[CHOOSE i \in hits : \A j \in hits : i <= j].attrs

\* SELECT 1 FROM euds WHERE uid = :uid
Exists(e, uid) == uid \in EudUids(e)

\* the row an INSERT INTO euds (...) VALUES (...) adds: the derived uid and the
\* columns copied from eud_row
ClonedRowUnderOriginalUid(new_uid, eud_row) ==
  [uid |-> Truncate(new_uid), attrs |-> eud_row]
ClonedRowBlank(new_uid, eud_row) == [uid |-> new_uid, attrs |-> "blank"]
ClonedRow(new_uid, eud_row) == [uid |-> new_uid, attrs |-> eud_row]

\* euds.uid is unique (the identifier of the endpoint store): an INSERT of a uid
\* that is present is rejected by the store
UidTaken(e, uid) == uid \in EudUids(e)

\* (ORDER BY id DESC)
RECURSIVE SortedIdsDescending(_)
SortedIdsDescending(S) ==
  IF S = {} THEN <<>>
  ELSE LET m == CHOOSE x \in S : \A y \in S : x >= y
       IN <<m>> \o SortedIdsDescending(S \ {m})

\* ascending sequence of a finite set of ids: array_agg(id ORDER BY id)
RECURSIVE SortedIds(_)
SortedIds(S) ==
  IF S = {} THEN <<>>
  ELSE LET m == CHOOSE x \in S : \A y \in S : x <= y
       IN <<m>> \o SortedIds(S \ {m})

\* SELECT fk, array_agg(id ORDER BY id) FROM rel WHERE fk IS NOT NULL
\* GROUP BY fk HAVING count(*) > 1
DupGroups(rel) ==
  LET keys == {rel[i] : i \in DOMAIN rel} \ {NULL}
      members(u) == {i \in DOMAIN rel : rel[i] = u}
  IN {[uid |-> u, ids |-> SortedIds(members(u))] :
        u \in {k \in keys : Cardinality(members(k)) > 1}}

\* UNIQUE (fk) over the non-null values: two rows hold the same non-null value
HasDuplicate(rel) ==
  \E i, j \in DOMAIN rel : i # j /\ rel[i] # NULL /\ rel[i] = rel[j]

\* UPDATE rel SET fk = SUBSTRING(fk FROM 1 FOR POSITION(...) - 1)
\* WHERE fk LIKE '%::dup::%'
Rewrite(rel) ==
  [i \in DOMAIN rel |-> IF rel[i] # NULL /\ IsDup(rel[i]) THEN Truncate(rel[i])
                        ELSE rel[i]]

\* DELETE FROM euds WHERE uid LIKE '%::dup::%'
DeleteClonesOf(e) == SelectSeq(e, LAMBDA r : ~IsDup(r.uid))

\* ------------------------------------------------------------------- state
VARIABLES
  euds,      \* the euds table: sequence of rows [uid, attrs] in insertion order
  certs,     \* certificates.eud_uid by certificate id
  pkgs,      \* data_packages.creator_uid by data_package id
  cons,      \* names of the unique constraints that exist
  pc,        \* the statement upgrade()/downgrade() executes next
  todo,      \* rows of dup_certs / dup_pkgs not yet iterated
  row,       \* loop variable `row`: [uid, ids]
  eud_row,   \* local eud_row
  dups,      \* part of dup_cert_ids / dup_pkg_ids not yet iterated
  new_uid,   \* local new_uid
  inserted,  \* whether the current iteration executed the INSERT
  err,       \* the exception that ended the call, "" when none
  hist,      \* the calls made so far: sequence of [op, res]
  pre,       \* the store at the start of each call
  log,       \* the repointings of the current call
  dIn,       \* derivation check: two (uid, id) pairs
  dOut       \* derivation check: their derived uids

store_vars == <<euds, certs, pkgs, cons>>
local_vars == <<todo, row, eud_row, dups, new_uid, inserted>>
derive_vars == <<dIn, dOut>>
vars == <<euds, certs, pkgs, cons, pc, todo, row, eud_row, dups, new_uid,
          inserted, err, hist, pre, log, dIn, dOut>>

CertsKey == "certificates_eud_uid_key"
PkgsKey == "data_packages_creator_uid_key"

\* ----------------------------------------------------------- initial store
E == <<"E">>
X == <<"E", ":", ":", "d", "u", "p", ":", ":", "2">>
InitUids == <<E, X>>
InitAttrs == <<"a", "b">>

\* any subset of the initial uids has a row; E's row carries "a", X's "b"
EudTables ==
  {SelectSeq([i \in DOMAIN InitUids |->
                [uid |-> InitUids[i], attrs |-> InitAttrs[i], on |-> i \in S]],
             LAMBDA r : r.on) : S \in SUBSET (DOMAIN InitUids)}

StripOn(e) == [i \in DOMAIN e |-> [uid |-> e[i].uid, attrs |-> e[i].attrs]]

FkValues == {InitUids[i] : i \in DOMAIN InitUids} \cup {NULL}

Snapshot == [euds |-> euds, certs |-> certs, pkgs |-> pkgs, cons |-> cons]

Init ==
  /\ euds \in {StripOn(t) : t \in EudTables}
  /\ certs \in [CertIds -> FkValues]
  /\ pkgs \in [PkgIds -> FkValues]
  /\ cons = {}
  /\ pc = "idle"
  /\ todo = {}
  /\ row = NoGroup
  /\ eud_row = NoRow
  /\ dups = <<>>
  /\ new_uid = NULL
  /\ inserted = FALSE
  /\ err = ""
  /\ hist = <<>>
  /\ pre = <<>>
  /\ log = {}
  /\ dIn = <<>>
  /\ dOut = <<>>

\* ----------------------------------------------------------------- calls
\* a call starts when no call is running: after a return, an interruption or an
\* exception, on the store as that left it
Begin(op) ==
  /\ pc \in {"idle", "failed"}
  /\ Len(hist) < MaxCalls
  /\ hist' = Append(hist, [op |-> op, res |-> "running"])
  /\ pre' = Append(pre, Snapshot)
  /\ log' = {}
  /\ err' = ""

End(res) == hist' = [hist EXCEPT ![Len(hist)].res = res]

\* an exception leaves the call; nothing after the raising statement runs
Raise(e) ==
  /\ pc' = "failed"
  /\ err' = e
  /\ End("failed")

ClearLocals ==
  /\ todo' = {}
  /\ row' = NoGroup
  /\ eud_row' = NoRow
  /\ dups' = <<>>
  /\ new_uid' = NULL
  /\ inserted' = FALSE

\* --------------------------------------------------------------- upgrade()
\* dup_certs = connection.execute(...).fetchall()
ScanCerts ==
  /\ Begin("upgrade")
  /\ todo' = DupGroups(certs)
  /\ row' = NoGroup /\ eud_row' = NoRow /\ dups' = <<>>
  /\ new_uid' = NULL /\ inserted' = FALSE
  /\ pc' = "cert_loop"
  /\ UNCHANGED <<store_vars, derive_vars>>

\* for row in dup_certs: ... eud_row = SELECT ... WHERE uid = :uid; if eud_row:
\* (GROUP BY fixes no order of the groups: any remaining group may be next)
CertFetchEud ==
  /\ pc = "cert_loop"
  /\ \E g \in todo :
       /\ row' = g
       /\ todo' = todo \ {g}
       /\ eud_row' = SelectEud(euds, g.uid)
       /\ dups' = Tail(g.ids)
       /\ pc' = IF SelectEud(euds, g.uid) # NoRow THEN "cert_insert"
                ELSE "cert_loop"
  /\ UNCHANGED <<store_vars, new_uid, inserted, err, hist, pre, log,
                 derive_vars>>

\* for cert_id in dup_cert_ids: new_uid = ...; INSERT INTO euds ...
CertInsert ==
  /\ pc = "cert_insert"
  /\ LET nu == Derive(row.uid, Head(dups))
     IN /\ new_uid' = nu
        /\ IF UidTaken(euds, nu)
           THEN /\ Raise("UniqueViolation")
                /\ UNCHANGED <<euds, inserted>>
           ELSE /\ euds' = Append(euds, ClonedRow(nu, eud_row))
                /\ inserted' = TRUE
                /\ pc' = "cert_update"
                /\ UNCHANGED <<err, hist>>
  /\ UNCHANGED <<certs, pkgs, cons, todo, row, eud_row, dups, pre, log,
                 derive_vars>>

\* a relation's UPDATE of one row's foreign key, under its unique constraint
\* when that exists
Collides(rel, id, uid, key) ==
  key \in cons /\ \E j \in DOMAIN rel : j # id /\ rel[j] = uid

LogEntry(rel, id) ==
  [rel |-> rel, id |-> id, orig |-> row.uid, new |-> new_uid,
   attrs |-> eud_row, inserted |-> inserted]

\* UPDATE certificates SET eud_uid = :new_uid WHERE id = :cert_id
CertUpdate ==
  /\ pc = "cert_update"
  /\ IF Collides(certs, Head(dups), new_uid, CertsKey)
     THEN /\ Raise("ConstraintViolation")
          /\ UNCHANGED <<certs, dups, log, inserted>>
     ELSE /\ certs' = [certs EXCEPT ![Head(dups)] = new_uid]
          /\ log' = log \cup {LogEntry("certificates", Head(dups))}
          /\ dups' = Tail(dups)
          /\ inserted' = FALSE
          /\ pc' = IF Tail(dups) # <<>> THEN "cert_insert" ELSE "cert_loop"
          /\ UNCHANGED <<err, hist>>
  /\ UNCHANGED <<euds, pkgs, cons, todo, row, eud_row, new_uid, pre,
                 derive_vars>>

\* (the certificates constraint added as soon as the certificates are done)
ScanPkgsAfterCertsKey ==
  /\ pc = "cert_loop"
  /\ todo = {}
  /\ todo' = DupGroups(pkgs)
  /\ cons' = cons \cup {CertsKey}
  /\ pc' = "pkg_loop"
  /\ UNCHANGED <<euds, certs, pkgs, row, eud_row, dups, new_uid, inserted, err,
                 hist, pre, log, dIn, dOut>>

\* dup_pkgs = connection.execute(...).fetchall(), once the loop over dup_certs
\* is exhausted
ScanPkgs ==
  /\ pc = "cert_loop"
  /\ todo = {}
  /\ todo' = DupGroups(pkgs)
  /\ pc' = "pkg_loop"
  /\ UNCHANGED <<store_vars, row, eud_row, dups, new_uid, inserted, err, hist,
                 pre, log, derive_vars>>

\* for row in dup_pkgs: ... eud_row = SELECT ... WHERE uid = :uid; if eud_row:
PkgFetchEud ==
  /\ pc = "pkg_loop"
  /\ \E g \in todo :
       /\ row' = g
       /\ todo' = todo \ {g}
       /\ eud_row' = SelectEud(euds, g.uid)
       /\ dups' = Tail(g.ids)
       /\ pc' = IF SelectEud(euds, g.uid) # NoRow THEN "pkg_check"
                ELSE "pkg_loop"
  /\ UNCHANGED <<store_vars, new_uid, inserted, err, hist, pre, log,
                 derive_vars>>

\* for pkg_id in dup_pkg_ids: new_uid = ...; existing = SELECT 1 ...;
\* if not existing:
PkgCheck ==
  /\ pc = "pkg_check"
  /\ new_uid' = Derive(row.uid, Head(dups))
  /\ pc' = IF Exists(euds, Derive(row.uid, Head(dups))) THEN "pkg_update"
           ELSE "pkg_insert"
  /\ UNCHANGED <<store_vars, todo, row, eud_row, dups, inserted, err, hist,
                 pre, log, derive_vars>>

\* INSERT INTO euds ... (data_packages pass)
PkgInsert ==
  /\ pc = "pkg_insert"
  /\ IF UidTaken(euds, new_uid)
     THEN /\ Raise("UniqueViolation")
          /\ UNCHANGED <<euds, inserted>>
     ELSE /\ euds' = Append(euds, ClonedRow(new_uid, eud_row))
          /\ inserted' = TRUE
          /\ pc' = "pkg_update"
          /\ UNCHANGED <<err, hist>>
  /\ UNCHANGED <<certs, pkgs, cons, todo, row, eud_row, dups, new_uid, pre,
                 log, derive_vars>>

\* UPDATE data_packages SET creator_uid = :new_uid WHERE id = :pkg_id
PkgUpdate ==
  /\ pc = "pkg_update"
  /\ IF Collides(pkgs, Head(dups), new_uid, PkgsKey)
     THEN /\ Raise("ConstraintViolation")
          /\ UNCHANGED <<pkgs, dups, log, inserted>>
     ELSE /\ pkgs' = [pkgs EXCEPT ![Head(dups)] = new_uid]
          /\ log' = log \cup {LogEntry("data_packages", Head(dups))}
          /\ dups' = Tail(dups)
          /\ inserted' = FALSE
          /\ pc' = IF Tail(dups) # <<>> THEN "pkg_check" ELSE "pkg_loop"
          /\ UNCHANGED <<err, hist>>
  /\ UNCHANGED <<euds, certs, cons, todo, row, eud_row, new_uid, pre,
                 derive_vars>>

\* outcome of ALTER TABLE ... ADD CONSTRAINT key UNIQUE (fk): the name is taken,
\* or two rows hold the same non-null value, or "" when it is added
AddUniqueUnchecked(rel, key) == ""
AddUnique(rel, key) ==
  IF key \in cons THEN "DuplicateObject"
  ELSE IF HasDuplicate(rel) THEN "ConstraintViolation"
  ELSE ""

\* ALTER TABLE certificates ADD CONSTRAINT certificates_eud_uid_key UNIQUE ...,
\* once the loop over dup_pkgs is exhausted
InstallCertsKey ==
  /\ pc = "pkg_loop"
  /\ todo = {}
  /\ IF AddUnique(certs, CertsKey) # ""
     THEN /\ Raise(AddUnique(certs, CertsKey))
          /\ UNCHANGED cons
     ELSE /\ cons' = cons \cup {CertsKey}
          /\ pc' = "install_pkgs_key"
          /\ UNCHANGED <<err, hist>>
  /\ UNCHANGED <<euds, certs, pkgs, local_vars, pre, log, derive_vars>>

\* ALTER TABLE data_packages ADD CONSTRAINT data_packages_creator_uid_key ...
InstallPkgsKey ==
  /\ pc = "install_pkgs_key"
  /\ IF AddUnique(pkgs, PkgsKey) # ""
     THEN /\ Raise(AddUnique(pkgs, PkgsKey))
          /\ UNCHANGED cons
     ELSE /\ cons' = cons \cup {PkgsKey}
          /\ pc' = "upgrade_commit"
          /\ UNCHANGED <<err, hist>>
  /\ UNCHANGED <<euds, certs, pkgs, local_vars, pre, log, derive_vars>>

\* connection.commit(); upgrade() returns
UpgradeCommit ==
  /\ pc = "upgrade_commit"
  /\ pc' = "idle"
  /\ End("ok")
  /\ ClearLocals
  /\ UNCHANGED <<store_vars, err, pre, log, derive_vars>>

\* the statements of upgrade() before the constraint installation
BeforeInstall ==
  {"cert_loop", "cert_insert", "cert_update",
   "pkg_loop", "pkg_check", "pkg_insert", "pkg_update"}

\* the run is cut short before the constraint installation and what it has
\* written so far stays in the store; a behaviour has one such interruption
Interrupt ==
  /\ pc \in BeforeInstall
  /\ \A k \in DOMAIN hist : hist[k].res # "interrupted"
  /\ pc' = "idle"
  /\ End("interrupted")
  /\ ClearLocals
  /\ UNCHANGED <<store_vars, err, pre, log, derive_vars>>

\* ------------------------------------------------------------- downgrade()
\* connection = op.get_bind()
StartDowngrade ==
  /\ Begin("downgrade")
  /\ ClearLocals
  /\ pc' = "drop_certs_key"
  /\ UNCHANGED <<store_vars, derive_vars>>

\* outcome of ALTER TABLE ... DROP CONSTRAINT key: the exception raised when no
\* such constraint exists, "" when it is dropped
DropOutcome(key) == IF key \in cons THEN "" ELSE "UndefinedObject"

\* try: ... except: pass -- the exception that leaves the try statement: none
ExceptReraise(e) == e
ExceptPass(e) == ""

\* try: ALTER TABLE certificates DROP CONSTRAINT ... except: pass
DropCertsKey ==
  /\ pc = "drop_certs_key"
  /\ IF ExceptPass(DropOutcome(CertsKey)) # ""
     THEN /\ Raise(ExceptPass(DropOutcome(CertsKey)))
          /\ UNCHANGED cons
     ELSE /\ cons' = cons \ {CertsKey}
          /\ pc' = "drop_pkgs_key"
          /\ UNCHANGED <<err, hist>>
  /\ UNCHANGED <<euds, certs, pkgs, local_vars, pre, log, derive_vars>>

\* try: ALTER TABLE data_packages DROP CONSTRAINT ... except: pass
DropPkgsKey ==
  /\ pc = "drop_pkgs_key"
  /\ IF ExceptPass(DropOutcome(PkgsKey)) # ""
     THEN /\ Raise(ExceptPass(DropOutcome(PkgsKey)))
          /\ UNCHANGED cons
     ELSE /\ cons' = cons \ {PkgsKey}
          /\ pc' = "rewrite_certs"
          /\ UNCHANGED <<err, hist>>
  /\ UNCHANGED <<euds, certs, pkgs, local_vars, pre, log, derive_vars>>

\* (the clones deleted first, as the docstring of downgrade() lists the steps)
DeleteClonesBeforeRewrite ==
  /\ pc = "rewrite_certs"
  /\ euds' = DeleteClonesOf(euds)
  /\ pc' = "rewrite_pkgs"
  /\ UNCHANGED <<certs, pkgs, cons, todo, row, eud_row, dups, new_uid,
                 inserted, err, hist, pre, log, dIn, dOut>>

\* UPDATE certificates SET eud_uid = SUBSTRING(...) WHERE eud_uid LIKE ...
RewriteCerts ==
  /\ pc = "rewrite_certs"
  /\ certs' = Rewrite(certs)
  /\ pc' = "rewrite_pkgs"
  /\ UNCHANGED <<euds, pkgs, cons, local_vars, err, hist, pre, log,
                 derive_vars>>

\* UPDATE data_packages SET creator_uid = SUBSTRING(...) WHERE creator_uid LIKE ...
RewritePkgs ==
  /\ pc = "rewrite_pkgs"
  /\ pkgs' = Rewrite(pkgs)
  /\ pc' = "delete_clones"
  /\ UNCHANGED <<euds, certs, cons, local_vars, err, hist, pre, log,
                 derive_vars>>

\* DELETE FROM euds WHERE uid LIKE '%::dup::%'
DeleteClones ==
  /\ pc = "delete_clones"
  /\ euds' = DeleteClonesOf(euds)
  /\ pc' = "downgrade_commit"
  /\ UNCHANGED <<certs, pkgs, cons, local_vars, err, hist, pre, log,
                 derive_vars>>

\* connection.commit(); downgrade() returns
DowngradeCommit ==
  /\ pc = "downgrade_commit"
  /\ pc' = "idle"
  /\ End("ok")
  /\ UNCHANGED <<store_vars, local_vars, err, pre, log, derive_vars>>

Next ==
  \/ ScanCerts \/ CertFetchEud \/ CertInsert \/ CertUpdate
  \/ ScanPkgs \/ PkgFetchEud \/ PkgCheck \/ PkgInsert \/ PkgUpdate
  \/ InstallCertsKey \/ InstallPkgsKey \/ UpgradeCommit
  \/ Interrupt
  \/ StartDowngrade \/ DropCertsKey \/ DropPkgsKey \/ RewriteCerts \/ RewritePkgs
  \/ DeleteClones \/ DowngradeCommit

Spec == Init /\ [][Next]_vars

\* ------------------------------------------------- the uid derivation alone
E1 == <<"E", "1">>
DeriveUids == {<<>>, E, E1, X, E \o Sep, <<"E", ":">>, <<":">>}
DerivePairs == DeriveUids \X (0..MaxRecId)

InitDerive ==
  /\ dIn \in DerivePairs \X DerivePairs
  /\ dOut = <<>>
  /\ euds = <<>>
  /\ certs = [i \in CertIds |-> NULL]
  /\ pkgs = [i \in PkgIds |-> NULL]
  /\ cons = {}
  /\ pc = "derive"
  /\ todo = {}
  /\ row = NoGroup
  /\ eud_row = NoRow
  /\ dups = <<>>
  /\ new_uid = NULL
  /\ inserted = FALSE
  /\ err = ""
  /\ hist = <<>>
  /\ pre = <<>>
  /\ log = {}

\* new_uid = f"{eud_uid}::dup::{cert_id}" applied to both pairs
ApplyDerive ==
  /\ pc = "derive"
  /\ dOut = <<>>
  /\ dOut' = <<Derive(dIn[1][1], dIn[1][2]), Derive(dIn[2][1], dIn[2][2])>>
  /\ UNCHANGED <<store_vars, local_vars, pc, err, hist, pre, log, dIn>>

NextDerive == ApplyDerive

SpecDerive == InitDerive /\ [][NextDerive]_vars

\* ------------------------------------------------------------------ claims
LastCall == hist[Len(hist)]
InUpgrade == hist # <<>> /\ LastCall.op = "upgrade"
\* the reassignment of both relations is over, the constraints come next
ReassignmentDone == InUpgrade /\ pc = "pkg_loop" /\ todo = {}
\* every non-null foreign key of a store names a row of its euds table
Valid(s) ==
  /\ \A i \in DOMAIN s.certs : s.certs[i] # NULL => Exists(s.euds, s.certs[i])
  /\ \A i \in DOMAIN s.pkgs : s.pkgs[i] # NULL => Exists(s.euds, s.pkgs[i])
\* no uid of a store contains '::dup::'
SeparatorFree(s) ==
  /\ \A u \in EudUids(s.euds) : ~IsDup(u)
  /\ \A i \in DOMAIN s.certs : ~IsDup(s.certs[i])
  /\ \A i \in DOMAIN s.pkgs : ~IsDup(s.pkgs[i])

\* C1: once upgrade() has run its reassignment steps, no two certificates and
\* no two data_packages hold the same non-null foreign-key value.
C1_UniqueAfterReassignment ==
  ReassignmentDone => ~HasDuplicate(certs) /\ ~HasDuplicate(pkgs)

\* C2: when the euds row of a duplicate group's uid is missing as the group is
\* processed, upgrade() is in the failed state with NotFoundError; it is never
\* at any other statement with that group fetched and no row found.
C2_MissingEudAborts ==
  (InUpgrade /\ row # NoGroup /\ eud_row = NoRow)
    => (pc = "failed" /\ err = "NotFoundError")

\* C3: a second upgrade() right after a completed one ends without error and
\* leaves euds, certificates and data_packages as the first run left them.
C3_SecondRunIsNoOp ==
  (Len(hist) = 2 /\ hist[1] = [op |-> "upgrade", res |-> "ok"]
     /\ hist[2].op = "upgrade" /\ hist[2].res \in {"ok", "failed"})
    => (hist[2].res = "ok" /\ Snapshot = pre[2])

RoundTripDone ==
  /\ Len(hist) = 2
  /\ hist[1] = [op |-> "upgrade", res |-> "ok"]
  /\ hist[2] = [op |-> "downgrade", res |-> "ok"]

RoundTripRestores ==
  /\ certs = pre[1].certs
  /\ pkgs = pre[1].pkgs
  /\ EudUids(euds) \cap (EudUids(pre[2].euds) \ EudUids(pre[1].euds)) = {}
  /\ \A i \in DOMAIN pre[1].euds : \E j \in DOMAIN euds : euds[j] = pre[1].euds[i]

\* C4 (as claimed): for any initial store, upgrade() then downgrade() restores
\* every foreign key, leaves no endpoint upgrade() created and keeps every
\* endpoint that existed before.
C4_RoundTrip == RoundTripDone => RoundTripRestores

\* C4 (amended): the same, for an initial store in which no endpoint uid and no
\* foreign-key value contains '::dup::'.
C4_RoundTripSeparatorFree ==
  (RoundTripDone /\ SeparatorFree(pre[1])) => RoundTripRestores

C4_Witness ==
  /\ RoundTripDone
  /\ SeparatorFree(pre[1])
  /\ \E i \in CertIds : IsDup(pre[2].certs[i])
  /\ \E i \in PkgIds : IsDup(pre[2].pkgs[i])
  /\ Len(pre[2].euds) > Len(pre[1].euds)

\* C5: for every duplicate group of the store upgrade() started from, once the
\* reassignment is over the lowest id still references the group's uid E and
\* every other id r references E::dup::r, which has a row in euds.
C5_KeeperAndClones ==
  ReassignmentDone =>
    /\ \A g \in DupGroups(pre[Len(pre)].certs) :
         /\ certs[Head(g.ids)] = g.uid
         /\ \A k \in 2..Len(g.ids) :
              /\ certs[g.ids[k]] = Derive(g.uid, g.ids[k])
              /\ Exists(euds, Derive(g.uid, g.ids[k]))
    /\ \A g \in DupGroups(pre[Len(pre)].pkgs) :
         /\ pkgs[Head(g.ids)] = g.uid
         /\ \A k \in 2..Len(g.ids) :
              /\ pkgs[g.ids[k]] = Derive(g.uid, g.ids[k])
              /\ Exists(euds, Derive(g.uid, g.ids[k]))

\* C6 (as claimed): every endpoint a record was repointed to carries the
\* attributes read from its group's original endpoint, whether the clone was
\* inserted or an endpoint already present under the derived uid was reused.
C6_CloneAttrs ==
  \A l \in log : SelectEud(euds, l.new) = l.attrs

\* C6 (amended): the same for every clone the run inserted and for every reused
\* endpoint that the run itself inserted earlier (in the certificates pass); an
\* endpoint present under the derived uid before the run is reused as it is.
C6_CloneAttrsOfThisRun ==
  \A l \in log :
    (l.inserted \/ ~Exists(pre[Len(pre)].euds, l.new))
      => SelectEud(euds, l.new) = l.attrs

C6_Witness ==
  /\ \E l \in log : l.rel = "certificates" /\ l.inserted /\ l.attrs = "a"
  /\ \E l \in log : /\ l.rel = "data_packages" /\ ~l.inserted
                    /\ ~Exists(pre[Len(pre)].euds, l.new)

\* C7: when the constraint installation is reached with two records of a
\* relation holding the same non-null foreign key, the installation fails and
\* upgrade() ends failed with ConstraintViolation; upgrade() never gets to its
\* commit, nor returns, while such a duplicate remains.
C7_DuplicatesFailInstall ==
  [][/\ (InstallCertsKey /\ HasDuplicate(certs))
          => (pc' = "failed" /\ err' = "ConstraintViolation")
     /\ (InstallPkgsKey /\ HasDuplicate(pkgs))
          => (pc' = "failed" /\ err' = "ConstraintViolation")
     /\ (pc' = "upgrade_commit" \/ (pc = "upgrade_commit" /\ pc' = "idle"))
          => (~HasDuplicate(certs') /\ ~HasDuplicate(pkgs'))]_vars

C7_Witness ==
  /\ pc = "failed"
  /\ err = "ConstraintViolation"
  /\ HasDuplicate(pkgs)
  /\ ~HasDuplicate(certs)
  /\ CertsKey \in cons
  /\ log # {}

\* C8: from a store that is valid and free of '::dup::', an upgrade() cut short
\* before the constraint installation leaves a valid store, and a fresh
\* upgrade() then ends without error with unique non-null foreign keys.
C8_CrashAndRetry ==
  (hist # <<>> /\ hist[1] = [op |-> "upgrade", res |-> "interrupted"]
     /\ Valid(pre[1]) /\ SeparatorFree(pre[1]))
    => /\ Len(hist) = 1 => Valid(Snapshot)
       /\ (Len(hist) = 2 /\ hist[2].op = "upgrade"
             /\ hist[2].res \in {"ok", "failed"})
            => /\ hist[2].res = "ok"
               /\ ~HasDuplicate(certs)
               /\ ~HasDuplicate(pkgs)

\* C9 (as claimed): two distinct records repointed by a run, of the same or of
\* different relations, never get the same clone uid.
C9_DistinctCloneIds ==
  \A l1, l2 \in log :
    (l1.rel # l2.rel \/ l1.id # l2.id) => l1.new # l2.new

\* C9 (amended): two distinct records repointed by a run get the same clone uid
\* only when they are of different relations and have the same record id and
\* the same original uid; two records of one relation never do.
C9_SharedOnlyAcrossRelations ==
  \A l1, l2 \in log :
    ((l1.rel # l2.rel \/ l1.id # l2.id) /\ l1.new = l2.new)
      => (l1.rel # l2.rel /\ l1.id = l2.id /\ l1.orig = l2.orig)

C9_Witness ==
  /\ \E l1, l2 \in log : l1.rel = l2.rel /\ l1.id # l2.id
  /\ \E l1, l2 \in log : l1.rel # l2.rel /\ l1.new = l2.new
  /\ \E l1, l2 \in log : l1.rel # l2.rel /\ l1.id # l2.id

\* C10: two distinct (uid, record id) pairs never derive the same clone uid.
C10_DeriveInjective ==
  (dOut # <<>> /\ dIn[1] # dIn[2]) => dOut[1] # dOut[2]

C10_Witness ==
  /\ dOut # <<>>
  /\ dIn[1] = <<E1, 2>>
  /\ dIn[2] = <<E, 12>>
  /\ dOut[1] # dOut[2]

\* the store the running (or last) call started from
PreCall == pre[Len(pre)]
InDowngrade == hist # <<>> /\ LastCall.op = "downgrade"
\* no foreign key and no euds uid contains '::dup::'
NoDupUidLeft ==
  /\ \A i \in CertIds : ~IsDup(certs[i])
  /\ \A i \in PkgIds : ~IsDup(pkgs[i])
  /\ \A u \in EudUids(euds) : ~IsDup(u)

C11_WitnessBothAbsent ==
  /\ InDowngrade
  /\ LastCall.res = "ok"
  /\ PreCall.cons = {}
  /\ \E i \in CertIds : IsDup(PreCall.certs[i]) /\ ~IsDup(certs[i])

\* C12: in every state of an upgrade() that started from a store whose non-null
\* foreign keys all name a euds row, every certificate and data_package that
\* references a uid containing '::dup::' references a row of euds: the clone
\* is inserted before the record is repointed to it.
C12_NoDanglingClone ==
  (InUpgrade /\ Valid(PreCall))
    => /\ \A i \in CertIds : IsDup(certs[i]) => Exists(euds, certs[i])
       /\ \A i \in PkgIds : IsDup(pkgs[i]) => Exists(euds, pkgs[i])

\* a certificate and a data_package have just been repointed to clones that
\* this run inserted
C12_Witness ==
  /\ InUpgrade
  /\ Valid(PreCall)
  /\ \E l \in log : /\ l.rel = "certificates" /\ l.inserted
                    /\ certs[l.id] = l.new /\ PreCall.certs[l.id] # l.new
  /\ \E l \in log : /\ l.rel = "data_packages" /\ l.inserted
                    /\ pkgs[l.id] = l.new /\ PreCall.pkgs[l.id] # l.new

\* no two rows of a euds table have the same uid
UidsUnique(e) == \A i, j \in DOMAIN e : e[i].uid = e[j].uid => i = j

\* C13: neither pass executes its INSERT INTO euds for a uid that already has a
\* row, no upgrade() step changes or removes a row that is there, and the uids
\* of euds stay unique.
C13_NoInsertOfPresentUid ==
  [][/\ CertInsert => ~Exists(euds, new_uid')
     /\ PkgInsert => ~Exists(euds, new_uid)
     /\ InUpgrade' => \A i \in DOMAIN euds : euds'[i] = euds[i]
     /\ UidsUnique(euds')]_vars

\* position of a statement of upgrade() in the order of the source
Phase(p) ==
  CASE p \in {"cert_loop", "cert_insert", "cert_update"} -> 1
    [] p \in {"pkg_loop", "pkg_check", "pkg_insert", "pkg_update"} -> 2
    [] p = "install_pkgs_key" -> 3
    [] p = "upgrade_commit" -> 4
    [] OTHER -> 5

\* a step of a running upgrade() (its last step included)
UpgradeStep ==
  /\ InUpgrade
  /\ LastCall.res = "running"
  /\ Len(hist') = Len(hist)

\* C14: within one upgrade(), the statements run in the order certificates
\* pass, data_packages pass, constraint installation: no certificate changes
\* once the data_packages have been scanned, no constraint is added while a
\* pass runs, and once a constraint has been added no euds row is inserted and
\* no foreign key is updated.
C14_StepOrder ==
  [][UpgradeStep =>
       /\ Phase(pc') >= Phase(pc)
       /\ Phase(pc) >= 2 => certs' = certs
       /\ certs' # certs => (pkgs = PreCall.pkgs /\ pkgs' = pkgs)
       /\ cons' # cons => (Phase(pc') >= 3 /\ pc \notin {"cert_loop",
                            "cert_insert", "cert_update", "pkg_check",
                            "pkg_insert", "pkg_update"})
       /\ cons # PreCall.cons => UNCHANGED <<euds, certs, pkgs>>]_vars

\* a run that cloned for both relations and then added both constraints
C14_Witness ==
  /\ InUpgrade
  /\ pc = "upgrade_commit"
  /\ cons = {CertsKey, PkgsKey}
  /\ PreCall.cons = {}
  /\ \E l \in log : l.rel = "certificates" /\ l.inserted
  /\ \E l \in log : l.rel = "data_packages" /\ l.inserted

\* uids of the euds rows the running downgrade() has deleted
Deleted == EudUids(PreCall.euds) \ EudUids(euds)

NonKeeper(rel, i) ==
  rel[i] # NULL /\ \E j \in DOMAIN rel : j < i /\ rel[j] = rel[i]

\* the clone uids of the non-keepers of a relation
CloneUids(rel) == {Derive(rel[i], i) : i \in {k \in DOMAIN rel : NonKeeper(rel, k)}}

\* C16: upgrade() deletes no euds row and changes none that was there when it
\* started, deletes no record, changes the foreign key of a record only if the
\* record is a non-keeper of a duplicate group (so null foreign keys, sole
\* referencers and keepers keep their value), and inserts euds rows only under
\* the clone uids of such non-keepers.
C16_Frame ==
  InUpgrade =>
    /\ Len(euds) >= Len(PreCall.euds)
    /\ \A i \in DOMAIN PreCall.euds : euds[i] = PreCall.euds[i]
    /\ DOMAIN certs = DOMAIN PreCall.certs
    /\ DOMAIN pkgs = DOMAIN PreCall.pkgs
    /\ \A i \in CertIds :
         certs[i] # PreCall.certs[i] => NonKeeper(PreCall.certs, i)
    /\ \A i \in PkgIds :
         pkgs[i] # PreCall.pkgs[i] => NonKeeper(PreCall.pkgs, i)
    /\ \A j \in DOMAIN euds :
         j > Len(PreCall.euds) =>
           euds[j].uid \in CloneUids(PreCall.certs) \cup CloneUids(PreCall.pkgs)

\* a run that repointed a non-keeper certificate and left alone a keeper, a
\* certificate with a null foreign key and a data_package that is the sole
\* referencer of its endpoint
C16_Witness ==
  /\ ReassignmentDone
  /\ Len(euds) > Len(PreCall.euds)
  /\ \E i \in CertIds : certs[i] # PreCall.certs[i]
  /\ \E i \in CertIds : /\ PreCall.certs[i] # NULL
                        /\ ~NonKeeper(PreCall.certs, i)
                        /\ \E j \in CertIds : j # i /\ PreCall.certs[j] = PreCall.certs[i]
  /\ \E i \in CertIds : PreCall.certs[i] = NULL
  /\ \E i \in PkgIds : /\ PreCall.pkgs[i] # NULL
                       /\ \A j \in PkgIds : j # i => PreCall.pkgs[j] # PreCall.pkgs[i]
====
